---- MODULE Spec2Model ----
(***************************************************************************)
(* State-machine model of the rollup-boost HTTP proxy middleware           *)
(* (src/src/proxy.rs: ProxyLayer, ProxyService::call, forward_request) as  *)
(* it is installed by src/src/main.rs.                                     *)
(*                                                                         *)
(* Every inbound HTTP request is one slot r of ReqIds.  ProxyService::call *)
(* is split at its suspension points: Call (the synchronous part of call), *)
(* Dispatch (body read, method parse, classification, spawn of the builder *)
(* task, issue of the awaited request), BuilderTaskRun / BuilderTaskFinish *)
(* (the task detached with tokio::spawn) and Complete (the awaited future  *)
(* resolves and the client is answered).                                   *)
(***************************************************************************)
EXTENDS Integers, Sequences, FiniteSets, TLC

(* ------------------------------ bounds --------------------------------- *)

\* number of inbound requests the model follows, any request
MaxReqs == 1

\* number of fan-out requests followed side by side
MaxRuns == 2

\* number of Engine API requests followed side by side
MaxEngineReqs == 2

\* last value of the wall clock (seconds since the layer was built)
MaxNow == 1

Max(a, b) == IF a >= b THEN a ELSE b

ReqIds == 1..Max(MaxReqs, Max(MaxRuns, MaxEngineReqs))

(* --------------------------- program constants -------------------------- *)

engine_ == <<"e","n","g","i","n","e","_">>
eth_sendRawTransaction == <<"e","t","h","_","s","e","n","d","R","a","w","T","r","a","n","s","a","c","t","i","o","n">>
miner_ == <<"m","i","n","e","r","_">>

\* proxy.rs:14
MULTIPLEX_METHODS == <<engine_, eth_sendRawTransaction, miner_>>

\* proxy.rs:15
FORWARD_REQUEST == <<engine_, eth_sendRawTransaction, miner_>>

\* proxy.rs:74, the path answered without touching the request
HealthPath == "/healthz"

(* ------------------------- method names in use -------------------------- *)

eth_blockNumber == <<"e","t","h","_","b","l","o","c","k","N","u","m","b","e","r">>
miner_setExtra == <<"m","i","n","e","r","_","s","e","t","E","x","t","r","a">>
engine_forkchoiceUpdatedV3 == <<"e","n","g","i","n","e","_","f","o","r","k","c","h","o","i","c","e","U","p","d","a","t","e","d","V","3">>
engine_getPayloadV3 == <<"e","n","g","i","n","e","_","g","e","t","P","a","y","l","o","a","d","V","3">>
engine_newPayloadV3 == <<"e","n","g","i","n","e","_","n","e","w","P","a","y","l","o","a","d","V","3">>

(* ------------------------------ values ---------------------------------- *)

\* str::starts_with
StartsWith(s, p) == Len(p) <= Len(s) /\ SubSeq(s, 1, Len(p)) = p

\* MULTIPLEX_METHODS.iter().any(|&m| method.starts_with(m)), proxy.rs:101
IsMultiplex(method) ==
    \E i \in 1..Len(MULTIPLEX_METHODS) : StartsWith(method, MULTIPLEX_METHODS[i])

\* a FORWARD_REQUEST table that lost its miner_ entry
IsForwardNoMiner(method) ==
    \E i \in 1..2 : StartsWith(method, FORWARD_REQUEST[i])

\* FORWARD_REQUEST.iter().any(|&m| method.starts_with(m)), proxy.rs:102
IsForward(method) ==
    \E i \in 1..Len(FORWARD_REQUEST) : StartsWith(method, FORWARD_REQUEST[i])

\* the three branches of proxy.rs:101-130
Route(method) ==
    IF IsMultiplex(method)
      THEN IF IsForward(method) THEN "forward" ELSE "inner"
      ELSE "direct"

\* a header map without Authorization
NoAuth == [secret |-> "none", iat |-> 0]

\* Option<JwtSecret>::None, the auth argument of proxy.rs:114 and :121
NoSecret == "none"

\* ProxyService.l2_auth, proxy.rs:53
L2Secret == "l2"

\* secret_to_bearer_header(&auth): a bearer token signed with the secret,
\* its iat claim the time of the call
secret_to_bearer_header(secret, t) == [secret |-> secret, iat |-> t]

\* forward_request that never inserts the Authorization header
OutboundAuthKeep(hdr, auth, t) == hdr

\* proxy.rs:144-147: the inbound headers travel with parts; insert replaces
\* the Authorization header only when a secret is given
OutboundAuth(hdr, auth, t) ==
    IF auth # NoSecret THEN secret_to_bearer_header(auth, t) ELSE hdr

\* request bodies.  kind: "unreadable" (read_body fails), "notjson",
\* "nomethod" (serde_json::from_slice fails), "escaped" (a JSON-RPC call
\* whose method string is written with a JSON escape, which cannot be
\* borrowed as &str, so from_slice fails as well), "rpc" (a JSON-RPC call)
Body(kind, method, params) == [kind |-> kind, method |-> method, params |-> params]

NoBody == Body("none", <<>>, "")

Bodies ==
    { Body("unreadable", <<>>, ""),
      Body("notjson", <<>>, ""),
      Body("nomethod", <<>>, ""),
      Body("escaped", eth_blockNumber, ""),
      Body("rpc", eth_blockNumber, ""),
      Body("rpc", eth_sendRawTransaction, "0xf86c"),
      Body("rpc", miner_setExtra, "x"),
      Body("rpc", engine_forkchoiceUpdatedV3, "attrs"),
      Body("rpc", engine_getPayloadV3, "0xaaaa") }

BroadcastBodies ==
    { Body("rpc", eth_sendRawTransaction, "0xf86c"),
      Body("rpc", miner_setExtra, "x") }

EngineBodies ==
    { Body("rpc", engine_forkchoiceUpdatedV3, "attrs"),
      Body("rpc", engine_getPayloadV3, "0xaaaa") }

GetPayloadBodies ==
    { Body("rpc", engine_getPayloadV3, "0xaaaa"),
      Body("rpc", engine_getPayloadV3, "0xcccc") }

NewPayloadBodies ==
    { Body("rpc", engine_newPayloadV3, "block 1"),
      Body("rpc", engine_newPayloadV3, "block 2") }

Paths == {HealthPath, "/"}

\* Authorization headers a client can present at time t: none, a token of
\* the driver, a token signed with a wrong key, a token that is too old
InboundAuths(t) ==
    { NoAuth,
      [secret |-> "driver", iat |-> t],
      [secret |-> "bad", iat |-> t],
      [secret |-> "driver", iat |-> t - 61] }

NoReq == [path |-> "", auth |-> NoAuth, body |-> NoBody]

\* what an upstream (or the local RPC module) puts in a response
Reply(tag, val, parent) == [tag |-> tag, val |-> val, parent |-> parent]

NoReply == Reply("none", "", "")

RpcError == Reply("error", "-32000", "")

\* replies L2 can give to a body
L2Replies(body) ==
    IF body.method = engine_forkchoiceUpdatedV3
      THEN {Reply("payloadId", "0xaaaa", ""), RpcError}
    ELSE IF body.method = engine_getPayloadV3
      THEN {Reply("payload", "l2 block", "h1"), RpcError}
    ELSE {Reply("value", "l2 result", ""), RpcError}

\* replies the builder can give to a body
BuilderReplies(body) ==
    IF body.method = engine_forkchoiceUpdatedV3
      THEN {Reply("payloadId", "0xbbbb", ""), RpcError}
    ELSE IF body.method = engine_getPayloadV3
      THEN {Reply("payload", "builder block", "h1"),
            Reply("payload", "builder block", "h2"), RpcError}
    ELSE {Reply("value", "builder result", ""), RpcError}

\* replies of the RPC module behind the middleware
InnerReplies(body) ==
    IF body.method = engine_forkchoiceUpdatedV3
      THEN {Reply("payloadId", "0xaaaa", "")}
      ELSE {Reply("value", "engine response", "")}

\* Result<http::Response, BoxError> of one upstream exchange
Outcome(kind, body) == [kind |-> kind, body |-> body]

NoOutcome == Outcome("none", NoReply)

TransportError == Outcome("err", NoReply)

\* client.request(req).await at L2: a response, or a transport failure
L2Outcomes(body) == {Outcome("ok", b) : b \in L2Replies(body)} \cup {TransportError}

BuilderOutcomes(body) ==
    {Outcome("ok", b) : b \in BuilderReplies(body)} \cup {TransportError}

InnerOutcomes(body) == {Outcome("ok", b) : b \in InnerReplies(body)}

\* what the client gets: Ok(response) with the origin of the response, or
\* an error: the service future resolved to
\* the BoxError the service future resolved to.  Upstreams answer JSON-RPC
\* with HTTP 200; status 0 stands for no HTTP response
Response(kind, src, status, body) ==
    [kind |-> kind, src |-> src, status |-> status, body |-> body]

NoResponse == Response("none", "", 0, NoReply)

\* the response of a future that resolved to Err(BoxError)
ErrResponse == Response("err", "proxy", 0, NoReply)

\* proxy.rs:75, Response::new has status 200
HealthResponse == Response("ok", "health", 200, Reply("value", "OK", ""))

\* one request put on the wire by forward_request
Outbound(to, auth, body, t) == [to |-> to, auth |-> auth, body |-> body, sentAt |-> t]

(* ------------------------------- state ---------------------------------- *)

VARIABLES
    now,          \* wall clock
    inbound,      \* r -> the request as the client sent it
    pc,           \* r -> "idle", "reading", "awaitL2", "awaitInner", "done"
    task,         \* r -> detached builder task: "none", "spawned", "sent", "finished"
    sent,         \* r -> sequence of Outbound, in the order they were issued
    innerCalls,   \* requests handed to the inner service
    l2Result,     \* r -> Outcome of the awaited exchange
    builderResult,\* r -> Outcome the detached task saw
    response,     \* r -> what the client received
    ctxSeen,      \* r -> builder payload id on record for the payload id of
                  \*      an engine_getPayload when it was dispatched, or ""
    boost_sync,   \* Args.boost_sync, handed to the inner service only
    payloadCtx    \* L2 payload ids the inner service holds a context for

vars == <<now, inbound, pc, task, sent, innerCalls, l2Result, builderResult,
          response, ctxSeen, boost_sync, payloadCtx>>

\* the service right after ProxyLayer::layer: nothing received yet
InitRequests ==
    /\ now = 0
    /\ inbound = [r \in ReqIds |-> NoReq]
    /\ pc = [r \in ReqIds |-> "idle"]
    /\ task = [r \in ReqIds |-> "none"]
    /\ sent = [r \in ReqIds |-> <<>>]
    /\ innerCalls = {}
    /\ l2Result = [r \in ReqIds |-> NoOutcome]
    /\ builderResult = [r \in ReqIds |-> NoOutcome]
    /\ response = [r \in ReqIds |-> NoResponse]
    /\ ctxSeen = [r \in ReqIds |-> ""]
    /\ payloadCtx = {}

\* main.rs:45, boost_sync defaults to false
Init == boost_sync = FALSE /\ InitRequests

\* started with or without --boost-sync
InitSync == boost_sync \in BOOLEAN /\ InitRequests

(* ------------------------------ actions --------------------------------- *)

\* Payload Context lookup: the builder payload id on record for an L2
\* payload id, "" when there is none.  A context exists for pid once L2 has
\* accepted an engine_forkchoiceUpdated with payload attributes by returning
\* pid; it has a builder payload id once the builder has answered the same
\* call with one.
BuilderPayloadId(pid) ==
    IF \E q \in ReqIds :
          /\ inbound[q].body = Body("rpc", engine_forkchoiceUpdatedV3, "attrs")
          /\ l2Result[q] = Outcome("ok", Reply("payloadId", pid, ""))
          /\ builderResult[q].kind = "ok"
          /\ builderResult[q].body.tag = "payloadId"
      THEN builderResult[CHOOSE q \in ReqIds :
              /\ inbound[q].body = Body("rpc", engine_forkchoiceUpdatedV3, "attrs")
              /\ l2Result[q] = Outcome("ok", Reply("payloadId", pid, ""))
              /\ builderResult[q].kind = "ok"
              /\ builderResult[q].body.tag = "payloadId"].body.val
      ELSE ""

\* the clock advances
Tick ==
    /\ now < MaxNow
    /\ now' = now + 1
    /\ UNCHANGED <<inbound, pc, task, sent, innerCalls, l2Result, builderResult,
                   response, ctxSeen, boost_sync, payloadCtx>>

\* a path that is never taken for the health check
IsHealthzNever(path) == FALSE

\* proxy.rs:74
IsHealthz(path) == path = HealthPath

\* ProxyService::call up to the creation of the future, proxy.rs:73-90, for
\* a request drawn from the given paths, headers and bodies.  Requests
\* arrive in the order of their slots.
CallFrom(r, paths, auths, bodies) ==
    /\ pc[r] = "idle"
    /\ \A q \in ReqIds : q < r => pc[q] # "idle"
    /\ \E p \in paths, a \in auths, b \in bodies :
         /\ inbound' = [inbound EXCEPT ![r] = [path |-> p, auth |-> a, body |-> b]]
         /\ IF IsHealthz(p)
              THEN /\ pc' = [pc EXCEPT ![r] = "done"]
                   /\ response' = [response EXCEPT ![r] = HealthResponse]
              ELSE /\ pc' = [pc EXCEPT ![r] = "reading"]
                   /\ UNCHANGED response
    /\ UNCHANGED <<now, task, sent, innerCalls, l2Result, builderResult, ctxSeen, boost_sync, payloadCtx>>

\* any request
Call(r) == r <= MaxReqs /\ CallFrom(r, Paths, InboundAuths(now), Bodies)

\* a request of the fan-out class, with or without a token of the driver
CallBroadcast(r) ==
    r <= MaxRuns /\ CallFrom(r, {"/"}, {NoAuth, [secret |-> "driver", iat |-> now]}, BroadcastBodies)

\* an Engine API request of the driver
CallEngine(r) ==
    r <= MaxEngineReqs /\ CallFrom(r, {"/"}, {[secret |-> "driver", iat |-> now]}, EngineBodies)

\* an engine_newPayload of the driver, or of a client without a token
CallNewPayload(r) ==
    r <= MaxReqs /\ CallFrom(r, {"/"}, {NoAuth, [secret |-> "driver", iat |-> now]}, NewPayloadBodies)

\* an engine_getPayload of the driver
CallGetPayload(r) ==
    r <= MaxRuns /\ CallFrom(r, {"/"}, {[secret |-> "driver", iat |-> now]}, GetPayloadBodies)

\* a request that is forwarded upstream: DIRECT or fan-out class
CallForwarded(r) ==
    r <= MaxReqs /\ CallFrom(r, {"/"}, InboundAuths(now),
                             BroadcastBodies \cup {Body("rpc", eth_blockNumber, "")})

\* a parse whose failure is replaced by an empty method name
ParseFailsOnReadOnly(body) == body.kind = "unreadable"

\* read_body(...).await? or serde_json::from_slice::<RpcRequest>(...)? returns
\* early with the error, proxy.rs:92-97
ParseFails(body) == body.kind # "rpc"

\* the future of proxy.rs:90-131 from the body read to its first pending
\* upstream exchange
Dispatch(r) ==
    /\ pc[r] = "reading"
    /\ LET req == inbound[r]
           body == req.body
       IN IF ParseFails(body)
            THEN
                 /\ pc' = [pc EXCEPT ![r] = "done"]
                 /\ response' = [response EXCEPT ![r] = ErrResponse]
                 /\ UNCHANGED <<task, sent, innerCalls>>
            ELSE CASE Route(body.method) = "forward" ->
                        /\ task' = [task EXCEPT ![r] = "spawned"]
                        /\ sent' = [sent EXCEPT ![r] = Append(@,
                               Outbound("l2", OutboundAuth(req.auth, NoSecret, now), body, now))]
                        /\ pc' = [pc EXCEPT ![r] = "awaitL2"]
                        /\ UNCHANGED <<innerCalls, response>>
                   [] Route(body.method) = "inner" ->
                        /\ innerCalls' = innerCalls \cup {r}
                        /\ pc' = [pc EXCEPT ![r] = "awaitInner"]
                        /\ UNCHANGED <<task, sent, response>>
                   [] Route(body.method) = "direct" ->
                        /\ sent' = [sent EXCEPT ![r] = Append(@,
                               Outbound("l2", OutboundAuth(req.auth, L2Secret, now), body, now))]
                        /\ pc' = [pc EXCEPT ![r] = "awaitL2"]
                        /\ UNCHANGED <<task, innerCalls, response>>
    /\ ctxSeen' = [ctxSeen EXCEPT ![r] =
           IF inbound[r].body.method = engine_getPayloadV3
             THEN BuilderPayloadId(inbound[r].body.params) ELSE @]
    /\ UNCHANGED <<now, inbound, l2Result, builderResult, boost_sync, payloadCtx>>

\* a builder request built after the body was moved into the L2 request
BuilderTaskRunDrained(r) ==
    /\ task[r] = "spawned"
    /\ task' = [task EXCEPT ![r] = "sent"]
    /\ sent' = [sent EXCEPT ![r] = Append(@,
           Outbound("builder", OutboundAuth(inbound[r].auth, NoSecret, now), NoBody, now))]
    /\ UNCHANGED <<now, inbound, pc, innerCalls, l2Result, builderResult, response,
                   ctxSeen, boost_sync, payloadCtx>>

\* the task of proxy.rs:108-117 runs forward_request up to client.request
BuilderTaskRun(r) ==
    /\ task[r] = "spawned"
    /\ task' = [task EXCEPT ![r] = "sent"]
    /\ sent' = [sent EXCEPT ![r] = Append(@,
           Outbound("builder", OutboundAuth(inbound[r].auth, NoSecret, now), inbound[r].body, now))]
    /\ UNCHANGED <<now, inbound, pc, innerCalls, l2Result, builderResult, response,
                   ctxSeen, boost_sync, payloadCtx>>

\* a task whose result is handed to the client when it is first
BuilderTaskFinishRace(r) ==
    /\ task[r] = "sent"
    /\ \E o \in BuilderOutcomes(inbound[r].body) :
         /\ builderResult' = [builderResult EXCEPT ![r] = o]
         /\ IF pc[r] = "awaitL2"
              THEN /\ pc' = [pc EXCEPT ![r] = "done"]
                   /\ response' = [response EXCEPT ![r] =
                          IF o.kind = "ok" THEN Response("ok", "builder", 200, o.body)
                                           ELSE ErrResponse]
              ELSE UNCHANGED <<pc, response>>
    /\ task' = [task EXCEPT ![r] = "finished"]
    /\ UNCHANGED <<now, inbound, sent, innerCalls, l2Result, ctxSeen, boost_sync, payloadCtx>>

\* a task that sends its request again when the exchange failed
BuilderTaskFinishRetry(r) ==
    /\ task[r] = "sent"
    /\ \E o \in BuilderOutcomes(inbound[r].body) :
         /\ builderResult' = [builderResult EXCEPT ![r] = o]
         /\ task' = [task EXCEPT ![r] = IF o.kind = "err" /\ Len(sent[r]) < 3
                                          THEN "spawned" ELSE "finished"]
    /\ UNCHANGED <<now, inbound, pc, sent, innerCalls, l2Result, response, ctxSeen,
                   boost_sync, payloadCtx>>

\* the builder exchange ends; `let _ =` drops its result, proxy.rs:109-116
BuilderTaskFinish(r) ==
    /\ task[r] = "sent"
    /\ \E o \in BuilderOutcomes(inbound[r].body) :
         builderResult' = [builderResult EXCEPT ![r] = o]
    /\ task' = [task EXCEPT ![r] = "finished"]
    /\ UNCHANGED <<now, inbound, pc, sent, innerCalls, l2Result, response, ctxSeen, boost_sync, payloadCtx>>

\* forward_request's match on the exchange, proxy.rs:156-172, and
\* inner.call(req).await.map_err, proxy.rs:125
ResultToResponse(src, o) ==
    IF o.kind = "ok" THEN Response("ok", src, 200, o.body) ELSE ErrResponse

\* a request path that also joins the detached builder task
RequestPathReadyJoin(r) ==
    /\ pc[r] \in {"awaitL2", "awaitInner"}
    /\ task[r] \notin {"spawned", "sent"}

\* what the request path waits for: the exchange awaited at proxy.rs:121,
\* :125 or :129 and nothing else; the JoinHandle of tokio::spawn is dropped
\* at proxy.rs:117
RequestPathReady(r) == pc[r] \in {"awaitL2", "awaitInner"}

\* the context table of the inner service after it answered body with o: a
\* forkchoiceUpdated with payload attributes that L2 accepted leaves a
\* context under the payload id returned
ContextsAfter(ctx, body, o) ==
    IF /\ body = Body("rpc", engine_forkchoiceUpdatedV3, "attrs")
       /\ o.kind = "ok"
       /\ o.body.tag = "payloadId"
      THEN ctx \cup {o.body.val}
      ELSE ctx

\* the awaited exchange of proxy.rs:121, :125 or :129 resolves and the
\* future returns its result to the client
Complete(r) ==
    /\ RequestPathReady(r)
    /\ \E o \in (IF pc[r] = "awaitL2" THEN L2Outcomes(inbound[r].body)
                                      ELSE InnerOutcomes(inbound[r].body)) :
         /\ l2Result' = [l2Result EXCEPT ![r] = IF pc[r] = "awaitL2" THEN o ELSE @]
         /\ response' = [response EXCEPT ![r] =
                ResultToResponse(IF pc[r] = "awaitL2" THEN "l2" ELSE "inner", o)]
         /\ payloadCtx' = IF pc[r] = "awaitInner"
                            THEN ContextsAfter(payloadCtx, inbound[r].body, o)
                            ELSE payloadCtx
    /\ pc' = [pc EXCEPT ![r] = "done"]
    /\ UNCHANGED <<now, inbound, task, sent, innerCalls, builderResult, ctxSeen,
                   boost_sync>>

Next ==
    \/ Tick
    \/ \E r \in ReqIds : Call(r)
    \/ \E r \in ReqIds : Dispatch(r)
    \/ \E r \in ReqIds : BuilderTaskRun(r)
    \/ \E r \in ReqIds : BuilderTaskFinish(r)
    \/ \E r \in ReqIds : Complete(r)

Spec == Init /\ [][Next]_vars

Steps ==
    \/ Tick
    \/ \E r \in ReqIds : Dispatch(r)
    \/ \E r \in ReqIds : BuilderTaskRun(r)
    \/ \E r \in ReqIds : BuilderTaskFinish(r)
    \/ \E r \in ReqIds : Complete(r)

NextBroadcast ==
    \/ \E r \in ReqIds : CallBroadcast(r)
    \/ \E r \in ReqIds : Dispatch(r)
    \/ \E r \in ReqIds : BuilderTaskRun(r)
    \/ \E r \in ReqIds : BuilderTaskFinish(r)
    \/ \E r \in ReqIds : Complete(r)

\* fan-out requests only, side by side.  The clock stands still here: it is
\* read by secret_to_bearer_header alone, which this route never calls.
SpecBroadcast == Init /\ [][NextBroadcast]_vars

NextEngine ==
    \/ \E r \in ReqIds : CallEngine(r)
    \/ Steps

\* Engine API requests only, side by side
SpecEngine == Init /\ [][NextEngine]_vars

NextGetPayload ==
    \/ \E r \in ReqIds : CallGetPayload(r)
    \/ \E r \in ReqIds : Dispatch(r)
    \/ \E r \in ReqIds : BuilderTaskRun(r)
    \/ \E r \in ReqIds : BuilderTaskFinish(r)
    \/ \E r \in ReqIds : Complete(r)

\* engine_getPayload requests only, side by side.  The clock stands still
\* here as in SpecBroadcast: this route never reads it.
SpecGetPayload == Init /\ [][NextGetPayload]_vars

NextSync ==
    \/ \E r \in ReqIds : CallNewPayload(r)
    \/ Steps

\* engine_newPayload requests, with boost_sync on or off
SpecSync == InitSync /\ [][NextSync]_vars

NextAwait ==
    \/ \E r \in ReqIds : CallForwarded(r)
    \/ Steps

\* forwarded requests under the scheduling the runtime gives: a future that
\* can make progress is polled, and the awaited upstream exchange ends (with
\* a response or a failure).  Nothing is assumed of the detached builder
\* task nor of the builder.
SpecAwait ==
    /\ Init
    /\ [][NextAwait]_vars
    /\ \A r \in ReqIds : WF_vars(Dispatch(r)) /\ WF_vars(Complete(r))

(* --------------------------- claim vocabulary --------------------------- *)

\* r is a JSON-RPC request: not the health check, and a body with a method
IsRpc(r) ==
    /\ pc[r] # "idle"
    /\ inbound[r].path # HealthPath
    /\ inbound[r].body.kind = "rpc"

Method(r) == inbound[r].body.method

\* the classes of the claims, stated on the method name alone
DirectClass(m) ==
    /\ ~StartsWith(m, engine_)
    /\ ~StartsWith(m, eth_sendRawTransaction)
    /\ ~StartsWith(m, miner_)

BroadcastClass(m) == m = eth_sendRawTransaction \/ StartsWith(m, miner_)

EngineClass(m) == StartsWith(m, engine_)

\* the outbound requests of r addressed to one endpoint
SentTo(r, to) == SelectSeq(sent[r], LAMBDA o : o.to = to)

Dispatched(r) == pc[r] \in {"awaitL2", "awaitInner", "done"}

\* a token minted with this secret for the very request that carries it
FreshFor(o, secret) == o.auth = [secret |-> secret, iat |-> o.sentAt]

\* the inbound token does not verify: absent, wrong key, or older than 60 s
Unauthorized(r) ==
    \/ inbound[r].auth.secret # "driver"
    \/ now - inbound[r].auth.iat > 60

(* ------------------------------- claims --------------------------------- *)

\* C1: a request of the DIRECT class causes exactly one outbound request, it
\* goes to L2 and never to the builder, it carries a bearer token minted from
\* the L2 secret at the time it is sent, and when L2 responds the client
\* receives L2's response.
C1_DirectToL2 ==
    \A r \in ReqIds :
        (IsRpc(r) /\ DirectClass(Method(r))) =>
            /\ task[r] = "none"
            /\ r \notin innerCalls
            /\ pc[r] = "reading" => sent[r] = <<>>
            /\ Dispatched(r) =>
                 /\ Len(sent[r]) = 1
                 /\ sent[r][1].to = "l2"
                 /\ FreshFor(sent[r][1], L2Secret)
            /\ (pc[r] = "done" /\ l2Result[r].kind = "ok") =>
                 response[r] = Response("ok", "l2", 200, l2Result[r].body)

\* C1 witness: a DIRECT request that came with a token of the driver, sent
\* after the clock moved, answered by L2
C1_Witness ==
    \E r \in ReqIds :
        /\ IsRpc(r) /\ DirectClass(Method(r))
        /\ inbound[r].auth.secret = "driver"
        /\ pc[r] = "done"
        /\ response[r].src = "l2"
        /\ sent[r][1].sentAt > 0

C3_BuilderNonInterference ==
    /\ \A r1, r2 \in ReqIds :
         ( /\ IsRpc(r1) /\ IsRpc(r2)
           /\ BroadcastClass(Method(r1))
           /\ pc[r1] = "done" /\ pc[r2] = "done"
           /\ inbound[r1] = inbound[r2]
           /\ l2Result[r1] = l2Result[r2] )
         => response[r1] = response[r2]
    /\ \A r \in ReqIds :
         (IsRpc(r) /\ BroadcastClass(Method(r)) /\ pc[r] = "done") =>
            /\ response[r].src # "builder"
            /\ response[r].kind = "err" => l2Result[r].kind = "err"

\* C3 witness: two answered runs of the same request with the same L2 reply,
\* the builder failing at transport level in one and replying in the other
C3_Witness ==
    \E r1, r2 \in ReqIds :
        /\ IsRpc(r1) /\ BroadcastClass(Method(r1))
        /\ pc[r1] = "done" /\ pc[r2] = "done"
        /\ inbound[r1] = inbound[r2]
        /\ l2Result[r1] = l2Result[r2]
        /\ l2Result[r1].kind = "ok"
        /\ builderResult[r1] = TransportError
        /\ builderResult[r2].kind = "ok"
        /\ response[r1] = response[r2]

\* C4: an engine_ request is handed to the inner service (the local Engine
\* API server) and answered with that service's response; the HTTP layer
\* forwards nothing for it.
C4_EngineToInner ==
    \A r \in ReqIds :
        (IsRpc(r) /\ EngineClass(Method(r)) /\ Dispatched(r)) =>
            /\ r \in innerCalls
            /\ sent[r] = <<>>
            /\ task[r] = "none"
            /\ pc[r] = "done" => response[r].src = "inner"

\* C5: a request for /healthz is answered 200 "OK" whatever its headers and
\* body, with no outbound request, no builder task and no inner call.
C5_Healthz ==
    \A r \in ReqIds :
        (pc[r] # "idle" /\ inbound[r].path = HealthPath) =>
            /\ pc[r] = "done"
            /\ response[r] = Response("ok", "health", 200, Reply("value", "OK", ""))
            /\ sent[r] = <<>>
            /\ task[r] = "none"
            /\ r \notin innerCalls
            /\ l2Result[r] = NoOutcome

\* C5 witness: a health check without Authorization and with a body that
\* cannot even be read
C5_Witness ==
    \E r \in ReqIds :
        /\ inbound[r].path = HealthPath
        /\ inbound[r].auth = NoAuth
        /\ inbound[r].body.kind = "unreadable"
        /\ response[r].status = 200

\* C6: a request other than /healthz whose token is missing, invalid or
\* expired is answered 401 and causes no outbound request to L2 or builder.
C6_AuthBeforeDispatch ==
    \A r \in ReqIds :
        (pc[r] # "idle" /\ inbound[r].path # HealthPath /\ Unauthorized(r)) =>
            /\ sent[r] = <<>>
            /\ task[r] = "none"
            /\ pc[r] = "done" => response[r].status = 401

\* C7: no outbound request carries the Authorization value that arrived on
\* the inbound request.
C7_InboundTokenDropped ==
    \A r \in ReqIds : \A i \in 1..Len(sent[r]) :
        inbound[r].auth # NoAuth => sent[r][i].auth # inbound[r].auth

\* the secret of the endpoint an outbound request is sent to
EndpointSecret(to) == IF to = "l2" THEN L2Secret ELSE "builder"

\* C8: every outbound request carries a token minted for it with the secret
\* of the endpoint it is sent to.
C8_FreshTokenPerEndpoint ==
    \A r \in ReqIds : \A i \in 1..Len(sent[r]) :
        FreshFor(sent[r][i], EndpointSecret(sent[r][i].to))

\* the builder's answer to r is a well-formed payload on the expected parent
BuilderPayloadGood(r) ==
    /\ builderResult[r].kind = "ok"
    /\ builderResult[r].body.tag = "payload"
    /\ builderResult[r].body.parent = "h1"

\* C9: an engine_getPayload whose Payload Context had a builder payload id
\* is answered with the builder's payload when, by the time the client is
\* answered, the builder has returned a well-formed payload on the expected
\* parent, and with L2's payload otherwise.
C9_GetPayloadSelection ==
    [][ \A r \in ReqIds :
          ( /\ IsRpc(r) /\ Method(r) = engine_getPayloadV3
            /\ ctxSeen[r] # ""
            /\ pc[r] = "awaitL2" /\ pc'[r] = "done"
            /\ l2Result'[r].kind = "ok" ) =>
              IF BuilderPayloadGood(r)
                THEN response'[r].body = builderResult[r].body
                ELSE response'[r].body = l2Result'[r].body ]_vars

\* C10: for engine_forkchoiceUpdated no request reaches the builder before
\* L2 has replied, and none at all when L2 returned an error or failed.
C10_BuilderAfterL2 ==
    \A r \in ReqIds :
        (IsRpc(r) /\ Method(r) = engine_forkchoiceUpdatedV3
                  /\ Len(SentTo(r, "builder")) > 0) =>
            /\ l2Result[r].kind = "ok"
            /\ l2Result[r].body.tag # "error"

\* C11: an engine_newPayload is forwarded once to L2 and L2's status is what
\* the client receives; a copy reaches the builder only when boost_sync is
\* enabled.
C11_NewPayloadSync ==
    \A r \in ReqIds :
        (IsRpc(r) /\ Method(r) = engine_newPayloadV3 /\ Dispatched(r)) =>
            /\ Len(SentTo(r, "l2")) = 1
            /\ (pc[r] = "done" /\ l2Result[r].kind = "ok") =>
                 response[r].body = l2Result[r].body
            /\ Len(SentTo(r, "builder")) > 0 => boost_sync

C13_ContextCreated ==
    \A r \in ReqIds :
        ( /\ IsRpc(r)
          /\ inbound[r].body = Body("rpc", engine_forkchoiceUpdatedV3, "attrs")
          /\ pc[r] = "done"
          /\ l2Result[r].kind = "ok"
          /\ l2Result[r].body.tag = "payloadId" )
        => l2Result[r].body.val \in payloadCtx

\* C14: when the exchange with L2 fails at transport level on a DIRECT or
\* BROADCAST route, the client receives a JSON-RPC internal error (-32603,
\* data.upstream = "l2") as a response, not an error of the service.
C14_L2FailureAsRpcError ==
    \A r \in ReqIds :
        ( /\ IsRpc(r)
          /\ DirectClass(Method(r)) \/ BroadcastClass(Method(r))
          /\ pc[r] = "done"
          /\ l2Result[r] = TransportError )
        => /\ response[r].kind = "ok"
           /\ response[r].body.tag = "error"
           /\ response[r].body.val = "-32603"

\* C15: a request other than /healthz whose body is not valid JSON or has no
\* method field is answered HTTP 400.
C15_BadRequest ==
    \A r \in ReqIds :
        ( /\ pc[r] = "done"
          /\ inbound[r].path # HealthPath
          /\ inbound[r].body.kind \in {"notjson", "nomethod"} )
        => response[r].status = 400

\* C16: an eth_sendRawTransaction request is answered by the RPC module
\* behind the middleware: the inner service is called and its response is
\* what the client receives.
C16_SendRawTxToInner ==
    \A r \in ReqIds :
        (IsRpc(r) /\ Method(r) = eth_sendRawTransaction /\ pc[r] = "done") =>
            /\ r \in innerCalls
            /\ response[r].src = "inner"

\* the builder request of r is on the wire and unanswered
BuilderOutstanding(r) == task[r] = "sent"

\* C17: on a BROADCAST route the client is answered once L2's exchange ends,
\* whether or not the builder task has run or the builder has replied.
C17_BuilderNotAwaited ==
    \A r \in ReqIds :
        (IsRpc(r) /\ BroadcastClass(Method(r)) /\ pc[r] = "awaitL2")
            ~> (pc[r] = "done" /\ response[r] # NoResponse)

\* C17 witness: a BROADCAST request answered with L2's reply while its
\* builder request is still outstanding
C17_Witness ==
    \E r \in ReqIds :
        /\ IsRpc(r) /\ BroadcastClass(Method(r))
        /\ pc[r] = "done"
        /\ response[r].src = "l2"
        /\ BuilderOutstanding(r)

\* C18: a request that was forwarded upstream is not answered while its L2
\* exchange is outstanding: as long as L2 has neither replied nor failed,
\* the client has no response.
C18_NoResponseBeforeL2 ==
    \A r \in ReqIds :
        (Len(SentTo(r, "l2")) > 0 /\ l2Result[r] = NoOutcome) =>
            /\ pc[r] = "awaitL2"
            /\ response[r] = NoResponse

\* C18 witness: the builder has already answered, L2 has not, and the client
\* is still waiting
C18_Witness ==
    \E r \in ReqIds :
        /\ Len(SentTo(r, "l2")) > 0
        /\ l2Result[r] = NoOutcome
        /\ task[r] = "finished"
        /\ builderResult[r].kind = "ok"
        /\ response[r] = NoResponse

\* C19: no retries.  Whatever the class of the request and the outcome
\* upstream, at most one request goes to L2 and at most one to the builder.
C19_NoRetries ==
    \A r \in ReqIds :
        /\ Len(SentTo(r, "l2")) <= 1
        /\ Len(SentTo(r, "builder")) <= 1
        /\ Len(sent[r]) = Len(SentTo(r, "l2")) + Len(SentTo(r, "builder"))

\* C19 witness: both exchanges of an engine_ request failed at transport
\* level and nothing was sent again
C19_Witness ==
    \E r \in ReqIds :
        /\ IsRpc(r) /\ EngineClass(Method(r))
        /\ pc[r] = "done"
        /\ l2Result[r] = TransportError
        /\ task[r] = "finished"
        /\ builderResult[r] = TransportError
        /\ Len(sent[r]) = 2

\* C20: every outbound request carries a body equal to the inbound body, and
\* issuing a request leaves the requests issued before it as they were.
C20_BodyRematerialized ==
    [][ \A r \in ReqIds :
          /\ \A i \in 1..Len(sent'[r]) : sent'[r][i].body = inbound'[r].body
          /\ Len(sent[r]) <= Len(sent'[r])
          /\ SubSeq(sent'[r], 1, Len(sent[r])) = sent[r] ]_vars

\* C20 witness: a fan-out request whose two outbound requests are both on
\* record with the inbound body
C20_Witness ==
    \E r \in ReqIds :
        /\ IsRpc(r)
        /\ Len(sent[r]) = 2
        /\ sent[r][1].to = "l2" /\ sent[r][2].to = "builder"
        /\ sent[r][1].body = inbound[r].body
        /\ sent[r][2].body = inbound[r].body

\* C21: a request other than /healthz whose body cannot be read, or cannot
\* be parsed to a method, fails before any dispatch: nothing is sent to L2,
\* no builder task is spawned, the inner service is not called, and the
\* client gets the error.
C21_ParseFailureNoDispatch ==
    \A r \in ReqIds :
        ( /\ pc[r] # "idle"
          /\ inbound[r].path # HealthPath
          /\ inbound[r].body.kind # "rpc" )
        => /\ sent[r] = <<>>
           /\ task[r] = "none"
           /\ r \notin innerCalls
           /\ l2Result[r] = NoOutcome
           /\ pc[r] \in {"reading", "done"}
           /\ pc[r] = "done" => response[r] = ErrResponse

\* C21 witness: a body that is not JSON, from a driver with a good token,
\* has been answered with the error
C21_Witness ==
    \E r \in ReqIds :
        /\ inbound[r].path # HealthPath
        /\ inbound[r].body.kind = "notjson"
        /\ inbound[r].auth.secret = "driver"
        /\ pc[r] = "done"
        /\ response[r] = ErrResponse

====
